---- MODULE Spec2Model ----
(***************************************************************************)
(* Model of the insulation estimator (src/insulation2.py).                 *)
(*                                                                         *)
(* The program is a Streamlit script: every widget interaction re-runs the *)
(* script top to bottom with the widgets' current values, and the report   *)
(* is computed only in the run that follows a click on "Run Estimate".     *)
(* The state is therefore the widgets' values plus the report on screen.   *)
(*                                                                         *)
(* Numbers.  The program works on floats; the model works on exact         *)
(* fixed-point integers:                                                   *)
(*   - lengths (feet), hours, blown-in square feet: whole numbers;         *)
(*   - coverage per bag: 1/CovScale sq ft (the catalog has one decimal);   *)
(*   - wall and cathedral areas, slope: 1/AreaScale (sq) ft, the square    *)
(*     root being truncated to that resolution;                            *)
(*   - dollar amounts: cents; the labour rate per sq ft: whole dollars,    *)
(*     so that area (1/100 sq ft) * rate is in cents;                      *)
(*   - total_tax is in 1/TaxDen cent and total_buf in 1/(TaxDen*BufDen)    *)
(*     cent, so that the two multiplications are exact.                    *)
(* Float rounding error of the individual operations is not modelled.      *)
(***************************************************************************)
EXTENDS Integers, Sequences, FiniteSets, TLC

CovScale == 10
AreaScale == 100

\* total_tax = (mat_total + lab_total) * 1.05, with 1.05 = TaxNum / TaxDen
TaxNum == 21
TaxDen == 20
\* total_buf = total_tax * 1.10, with 1.10 = BufNum / BufDen
BufNum == 11
BufDen == 10
\* buffered_cov = cs_cov * 1.10, with 1.10 = CovBufNum / CovBufDen
CovBufNum == 11
CovBufDen == 10
\* st.number_input("Number of Cathedral Sections", min_value=1, step=1)
MinNumCat == 1
\* inches per foot, in the batt counts
InchesPerFoot == 12

\* Largest number of cathedral sections explored
MaxSections == 2

Entry(cov, pcs) == [coverage_per_bag |-> cov, pieces_per_bag |-> pcs]

\* coverage_per_bag in 1/CovScale sq ft
MATERIAL_SPECS ==
    [ R12 |-> [widths |-> (15 :> Entry(1000, 20) @@ 23 :> Entry(1533, 20))],
      R14 |-> [widths |-> (15 :> Entry(783, 16)  @@ 23 :> Entry(1201, 16))],
      R20 |-> [widths |-> (15 :> Entry(800, 16)  @@ 23 :> Entry(1227, 16))],
      R22 |-> [widths |-> (15 :> Entry(490, 10)  @@ 23 :> Entry(751, 10))],
      R28 |-> [widths |-> (16 :> Entry(533, 10)  @@ 24 :> Entry(800, 10))],
      R31 |-> [widths |-> (16 :> Entry(427, 8)   @@ 24 :> Entry(640, 8))],
      R40 |-> [widths |-> (16 :> Entry(320, 6)   @@ 24 :> Entry(480, 6))] ]

\* list(MATERIAL_SPECS.keys())
RValues == <<"R12", "R14", "R20", "R22", "R28", "R31", "R40">>

RValueSet == {RValues[i] : i \in 1..Len(RValues)}

SetMin(S) == CHOOSE x \in S : \A y \in S : x <= y

RECURSIVE SortedSeq(_)
SortedSeq(S) == IF S = {} THEN <<>>
                ELSE <<SetMin(S)>> \o SortedSeq(S \ {SetMin(S)})

\* list(MATERIAL_SPECS[r]['widths']): the keys in insertion order, which is
\* ascending for every R-value of the catalog
WidthOptions(r) == SortedSeq(DOMAIN MATERIAL_SPECS[r].widths)

WidthSet(r) == DOMAIN MATERIAL_SPECS[r].widths

KeyError == "KeyError"

\* the (R-value, width) pair is a key of the catalog
InCatalog(r, w) == r \in RValueSet /\ w \in WidthSet(r)

\* MATERIAL_SPECS[r]['widths'][w]: a dict subscript, which raises KeyError
\* for an absent key
Lookup(r, w) ==
    IF InCatalog(r, w)
    THEN MATERIAL_SPECS[r].widths[w]
    ELSE KeyError

\* The width selectbox shown after the R-value selectbox took the value r:
\* its options are WidthOptions(r); a selectbox whose options are unchanged
\* keeps its value, one whose options changed is a new widget showing its
\* first option.
WidthKeep(r, w) == w
WidthAfter(r, w) == IF w \in WidthSet(r) THEN w ELSE WidthOptions(r)[1]

----------------------------------------------------------------------------
\* Arithmetic of the estimate

\* math.ceil(n / d) for n >= 0, d > 0
CeilFloor(n, d) == n \div d
Ceil(n, d) == (n + d - 1) \div d

RECURSIVE IsqrtIn(_, _, _)
\* the largest r in lo..hi with r * r <= n (lo * lo <= n < (hi + 1)^2)
IsqrtIn(n, lo, hi) ==
    IF lo >= hi THEN lo
    ELSE LET mid == (lo + hi + 1) \div 2
         IN  IF mid * mid <= n THEN IsqrtIn(n, mid, hi)
             ELSE IsqrtIn(n, lo, mid - 1)

RECURSIVE IsqrtHi(_, _)
IsqrtHi(n, h) == IF h * h > n THEN h ELSE IsqrtHi(n, 2 * h)

\* math.sqrt truncated to an integer
Isqrt(n) == IsqrtIn(n, 0, IsqrtHi(n, 1))

\* wall_area = wall_linear_feet * wall_height, in 1/AreaScale sq ft
WallArea(lf, h) == lf * h * AreaScale

\* slope = math.sqrt((bw/2)**2 + rise**2), in 1/AreaScale ft
Slope(bw, rise) ==
    Isqrt((bw * bw * AreaScale * AreaScale) \div 4
          + rise * rise * AreaScale * AreaScale)

\* 2 * slope * length, in 1/AreaScale sq ft
SectionArea(s) == 2 * Slope(s[2], s[3]) * s[1]

RECURSIVE TotalCatArea(_)
\* total_cat_area: the loop over cat_sections
TotalCatArea(sections) ==
    IF sections = <<>> THEN 0
    ELSE SectionArea(Head(sections)) + TotalCatArea(Tail(sections))

\* wall_bags = math.ceil(wall_area / wb_cov)
WallBags(area, cov) == Ceil(area * CovScale, cov * AreaScale)

\* buffered_cov = cs_cov * 1.10, in 1/(CovScale * CovBufDen) sq ft
BufferedCov(cov) == cov * CovBufNum

RECURSIVE CatBagsPerSection(_, _)
CatBagsPerSection(sections, cov) ==
    IF sections = <<>> THEN 0
    ELSE Ceil(SectionArea(Head(sections)) * CovScale * CovBufDen,
              BufferedCov(cov) * AreaScale)
         + CatBagsPerSection(Tail(sections), cov)

\* cat_bags = math.ceil(total_cat_area / buffered_cov), the buffered coverage
\* applied to the area summed over the sections
CatBags(sections, cov) ==
    Ceil(TotalCatArea(sections) * CovScale * CovBufDen,
         BufferedCov(cov) * AreaScale)

Max2(a, b) == IF a >= b THEN a ELSE b

\* ceiling_area = max(blow_sq - vault_sq, 0), in sq ft
CeilingAreaRaw(b, v) == b - v
CeilingArea(b, v) == Max2(b - v, 0)

\* ceiling_bags = math.ceil(ceiling_area / ceiling_cov_per_bag)
\*                if ceiling_cov_per_bag else 0
CeilingBagsOne(area, cov) == IF cov # 0 THEN Ceil(area * CovScale, cov) ELSE 1
CeilingBags(area, cov) == IF cov # 0 THEN Ceil(area * CovScale, cov) ELSE 0

\* math.ceil(dimension / (spacing / 12))
BattCount(dimension, spacing) == Ceil(dimension * InchesPerFoot, spacing)

RECURSIVE CatBatts(_, _)
\* cat_batts = [math.ceil(bw / (cat_spacing_in / 12)) for _, bw, _ in cat_sections]
CatBatts(sections, spacing) ==
    IF sections = <<>> THEN <<>>
    ELSE <<BattCount(Head(sections)[2], spacing)>>
         \o CatBatts(Tail(sections), spacing)

RECURSIVE SumSeq(_)
SumSeq(s) == IF s = <<>> THEN 0 ELSE Head(s) + SumSeq(Tail(s))


\* wall_lab = wall_area * wall_labour_rate
WallLab(wall_area, rate) == wall_area * rate

\* area_lab = (wall_area + total_cat_area) * wall_labour_rate
AreaLabCatOnly(wall_area, cat_area, rate) == cat_area * rate
AreaLab(wall_area, cat_area, rate) == (wall_area + cat_area) * rate

\* ceil_lab = ceiling_hourly * ceiling_hours + ceiling_flat_srchg
CeilLab(hourly, hours, flat) == hourly * hours + flat

\* cat_surch = ((cathedral_hourly * cathedral_hours) + cathedral_flat) * int(num_cat)
CatSurch(hourly, hours, flat, n) == (hourly * hours + flat) * n

\* mat_total = wall_cost + cat_cost + ceiling_mat_cost
MatTotal(wall_cost, cat_cost, ceiling_mat_cost) ==
    wall_cost + cat_cost + ceiling_mat_cost

\* lab_total = wall_lab + area_lab + ceil_lab + cat_surch
LabTotal(wall_lab, area_lab, ceil_lab, cat_surch) ==
    wall_lab + area_lab + ceil_lab + cat_surch

\* total_tax = (mat_total + lab_total) * 1.05, in 1/TaxDen cent
TotalTax(mat_total, lab_total) == (mat_total + lab_total) * TaxNum

\* total_buf = total_tax * 1.10, in 1/(TaxDen * BufDen) cent
TotalBufNone(total_tax) == total_tax * BufDen
TotalBuf(total_tax) == total_tax * BufNum

\* the costs dict handed to draw_cost_breakdown_chart, in insertion order
CostsNoAreaLabour(wall_cost, cat_cost, ceiling_mat_cost, wall_lab, area_lab, ceil_lab, cat_surch) ==
    << <<"Wall Mat", wall_cost>>, <<"Cat Mat", cat_cost>>,
       <<"Ceil Mat", ceiling_mat_cost>>, <<"Wall Labour", wall_lab>>,
       <<"Ceil Labour", ceil_lab>>, <<"Cat Surcharge", cat_surch>> >>
Costs(wall_cost, cat_cost, ceiling_mat_cost, wall_lab, area_lab, ceil_lab, cat_surch) ==
    << <<"Wall Mat", wall_cost>>, <<"Cat Mat", cat_cost>>,
       <<"Ceil Mat", ceiling_mat_cost>>, <<"Wall Labour", wall_lab>>,
       <<"Area Labour", area_lab>>, <<"Ceil Labour", ceil_lab>>,
       <<"Cat Surcharge", cat_surch>> >>

----------------------------------------------------------------------------
\* State: the widgets' values and the report on screen

VARIABLES
    wall_r_value, wall_width, wall_price_per_bag,
    cat_r_value, cat_width, cat_price_per_bag,
    ceiling_cov_per_bag, ceiling_price_per_bag,
    wall_linear_feet, wall_height, wall_stud_spacing,
    num_cat_entered, num_cat, cat_sections, cat_spacing_in,
    blow_sq, vault_sq,
    wall_labour_rate, ceiling_hourly, ceiling_hours, ceiling_flat_srchg,
    cathedral_hourly, cathedral_hours, cathedral_flat,
    report

wallMat == <<wall_r_value, wall_width, wall_price_per_bag>>
catMat == <<cat_r_value, cat_width, cat_price_per_bag>>
ceilMat == <<ceiling_cov_per_bag, ceiling_price_per_bag>>
wallDim == <<wall_linear_feet, wall_height, wall_stud_spacing>>
catDim == <<num_cat_entered, num_cat, cat_sections, cat_spacing_in>>
ceilDim == <<blow_sq, vault_sq>>
ceilRates == <<ceiling_hourly, ceiling_hours, ceiling_flat_srchg>>
catRates == <<cathedral_hourly, cathedral_hours, cathedral_flat>>
labour == <<wall_labour_rate, ceilRates, catRates>>
inputs == <<wallMat, catMat, ceilMat, wallDim, catDim, ceilDim, labour>>
vars == <<inputs, report>>

\* report is <<>> while no report is on screen (the "Run Estimate" button was
\* not the last interaction) and <<the report>> after a run
NoReport == <<>>
Shown == report # NoReport
rep == report[1]

\* Values the widgets are given
PriceValues == {0, 5000}
CeilCovValues == {0, 400}
LinearFeetValues == {0, 25, 40}
HeightValues == {0, 8}
SpacingOptions == <<16, 24>>
SpacingSet == {SpacingOptions[i] : i \in 1..Len(SpacingOptions)}
LengthValues == {0, 20}
BaseWidthValues == {0, 24}
RiseValues == {0, 8}
BlowValues == {0, 500, 1000}
VaultValues == {0, 500, 1000}
RateValues == {0, 2}
HourlyValues == {0, 4500}
HoursValues == {0, 3}
FlatValues == {0, 10000}

\* wp = MATERIAL_SPECS[wall_r_value]['widths'][wall_width]
wp == Lookup(wall_r_value, wall_width)
\* cp = MATERIAL_SPECS[cat_r_value]['widths'][cat_width]
cp == Lookup(cat_r_value, cat_width)

\* a section's three number inputs at their defaults (min_value=0.0)
NewSection == <<0, 0, 0>>

\* cat_sections for a section count n: the sections whose widgets were on
\* screen keep their values, the new ones start at the defaults
Resize(sections, n) ==
    [i \in 1..n |-> IF i <= Len(sections) THEN sections[i] ELSE NewSection]

\* The body of "if st.button('Run Estimate'):" on the widgets' current values
Estimate ==
    LET wall_area == WallArea(wall_linear_feet, wall_height)
        wb_cov == wp.coverage_per_bag
        wb_pcs == wp.pieces_per_bag
        wall_bags == WallBags(wall_area, wb_cov)
        wall_pieces == wall_bags * wb_pcs
        wall_cost == wall_bags * wall_price_per_bag
        cs_cov == cp.coverage_per_bag
        cs_pcs == cp.pieces_per_bag
        total_cat_area == TotalCatArea(cat_sections)
        cat_bags == CatBags(cat_sections, cs_cov)
        cat_pieces == cat_bags * cs_pcs
        cat_cost == cat_bags * cat_price_per_bag
        ceiling_area == CeilingArea(blow_sq, vault_sq)
        ceiling_bags == CeilingBags(ceiling_area, ceiling_cov_per_bag)
        ceiling_mat_cost == ceiling_bags * ceiling_price_per_bag
        wall_batts == BattCount(wall_linear_feet, wall_stud_spacing)
        cat_batts == CatBatts(cat_sections, cat_spacing_in)
        wall_lab == WallLab(wall_area, wall_labour_rate)
        area_lab == AreaLab(wall_area, total_cat_area, wall_labour_rate)
        ceil_lab == CeilLab(ceiling_hourly, ceiling_hours, ceiling_flat_srchg)
        cat_surch == CatSurch(cathedral_hourly, cathedral_hours, cathedral_flat, num_cat)
        mat_total == MatTotal(wall_cost, cat_cost, ceiling_mat_cost)
        lab_total == LabTotal(wall_lab, area_lab, ceil_lab, cat_surch)
        total_tax == TotalTax(mat_total, lab_total)
        total_buf == TotalBuf(total_tax)
        lines == << <<"Wall", wall_area, wall_bags, wall_pieces, wall_cost>>,
                    <<"Cathedral", total_cat_area, cat_bags, cat_pieces, cat_cost>>,
                    <<"Ceiling", ceiling_area, ceiling_bags, ceiling_mat_cost>>,
                    <<"Wall Labour", wall_lab>>,
                    <<"Area Labour (Wall+Cathedral)", area_lab>>,
                    <<"Ceiling Labour", ceil_lab>>,
                    <<"Cathedral Surcharge", cat_surch>>,
                    <<"Wall batts", wall_batts>>,
                    <<"Cathedral batts", SumSeq(cat_batts)>>,
                    <<"Material Total", mat_total>>,
                    <<"Labour Total", lab_total>>,
                    <<"Total w/ Tax", total_tax>>,
                    <<"Total w/ Tax & Buffer", total_buf>> >>
    IN  [ wall_area |-> wall_area, wall_bags |-> wall_bags,
          wall_pieces |-> wall_pieces, wall_cost |-> wall_cost,
          total_cat_area |-> total_cat_area, cat_bags |-> cat_bags,
          cat_pieces |-> cat_pieces, cat_cost |-> cat_cost,
          ceiling_area |-> ceiling_area, ceiling_bags |-> ceiling_bags,
          ceiling_mat_cost |-> ceiling_mat_cost,
          wall_batts |-> wall_batts, cat_batts |-> cat_batts,
          wall_lab |-> wall_lab, area_lab |-> area_lab,
          ceil_lab |-> ceil_lab, cat_surch |-> cat_surch,
          mat_total |-> mat_total, lab_total |-> lab_total,
          total_tax |-> total_tax, total_buf |-> total_buf,
          lines |-> lines,
          diagrams |-> [i \in 1..Len(cat_sections) |->
                           <<cat_sections[i][2], cat_sections[i][3]>>],
          costs |-> Costs(wall_cost, cat_cost, ceiling_mat_cost, wall_lab,
                          area_lab, ceil_lab, cat_surch),
          pdf |-> lines ]

----------------------------------------------------------------------------
\* Operations: one per widget, and the "Run Estimate" button.  A widget whose
\* value changes re-runs the script with the button not pressed, so the
\* report leaves the screen.

SelectWallR(r) ==
    /\ r # wall_r_value
    /\ wall_r_value' = r
    /\ wall_width' = WidthAfter(r, wall_width)
    /\ report' = NoReport
    /\ UNCHANGED <<wall_price_per_bag, catMat, ceilMat, wallDim, catDim, ceilDim, labour>>

SelectWallWidth(w) ==
    /\ w \in WidthSet(wall_r_value)
    /\ w # wall_width
    /\ wall_width' = w
    /\ report' = NoReport
    /\ UNCHANGED <<wall_r_value, wall_price_per_bag, catMat, ceilMat, wallDim, catDim, ceilDim, labour>>

SetWallPrice(v) ==
    /\ v # wall_price_per_bag
    /\ wall_price_per_bag' = v
    /\ report' = NoReport
    /\ UNCHANGED <<wall_r_value, wall_width, catMat, ceilMat, wallDim, catDim, ceilDim, labour>>

SelectCatR(r) ==
    /\ r # cat_r_value
    /\ cat_r_value' = r
    /\ cat_width' = WidthAfter(r, cat_width)
    /\ report' = NoReport
    /\ UNCHANGED <<cat_price_per_bag, wallMat, ceilMat, wallDim, catDim, ceilDim, labour>>

SelectCatWidth(w) ==
    /\ w \in WidthSet(cat_r_value)
    /\ w # cat_width
    /\ cat_width' = w
    /\ report' = NoReport
    /\ UNCHANGED <<cat_r_value, cat_price_per_bag, wallMat, ceilMat, wallDim, catDim, ceilDim, labour>>

SetCatPrice(v) ==
    /\ v # cat_price_per_bag
    /\ cat_price_per_bag' = v
    /\ report' = NoReport
    /\ UNCHANGED <<cat_r_value, cat_width, wallMat, ceilMat, wallDim, catDim, ceilDim, labour>>

SetCeilingCov(v) ==
    /\ v # ceiling_cov_per_bag
    /\ ceiling_cov_per_bag' = v
    /\ report' = NoReport
    /\ UNCHANGED <<ceiling_price_per_bag, wallMat, catMat, wallDim, catDim, ceilDim, labour>>

SetCeilingPrice(v) ==
    /\ v # ceiling_price_per_bag
    /\ ceiling_price_per_bag' = v
    /\ report' = NoReport
    /\ UNCHANGED <<ceiling_cov_per_bag, wallMat, catMat, wallDim, catDim, ceilDim, labour>>

SetWallLinearFeet(v) ==
    /\ v # wall_linear_feet
    /\ wall_linear_feet' = v
    /\ report' = NoReport
    /\ UNCHANGED <<wall_height, wall_stud_spacing, wallMat, catMat, ceilMat, catDim, ceilDim, labour>>

SetWallHeight(v) ==
    /\ v # wall_height
    /\ wall_height' = v
    /\ report' = NoReport
    /\ UNCHANGED <<wall_linear_feet, wall_stud_spacing, wallMat, catMat, ceilMat, catDim, ceilDim, labour>>

SelectWallStudSpacing(v) ==
    /\ v # wall_stud_spacing
    /\ wall_stud_spacing' = v
    /\ report' = NoReport
    /\ UNCHANGED <<wall_linear_feet, wall_height, wallMat, catMat, ceilMat, catDim, ceilDim, labour>>

\* The user enters n in "Number of Cathedral Sections" (min_value=1).  A
\* number below the minimum never becomes the widget's value: the field
\* either refuses it (nothing re-runs) or commits the minimum instead.
SetNumCat(n) ==
    /\ n # num_cat_entered \/ n # num_cat
    /\ num_cat_entered' = n
    /\ IF n >= MinNumCat
       THEN num_cat' = n
       ELSE num_cat' \in {num_cat, MinNumCat}
    /\ cat_sections' = Resize(cat_sections, num_cat')
    /\ report' = IF num_cat' = num_cat THEN report ELSE NoReport
    /\ UNCHANGED <<cat_spacing_in, wallMat, catMat, ceilMat, wallDim, ceilDim, labour>>

\* One of the three number inputs of section i (keys len_i, wd_i, ht_i)
SetSectionField(i, f, v) ==
    /\ i \in 1..Len(cat_sections)
    /\ v # cat_sections[i][f]
    /\ cat_sections' = [cat_sections EXCEPT ![i][f] = v]
    /\ report' = NoReport
    /\ UNCHANGED <<num_cat_entered, num_cat, cat_spacing_in, wallMat, catMat, ceilMat, wallDim, ceilDim, labour>>

SetSectionLength(i, v) == SetSectionField(i, 1, v)
SetSectionBaseWidth(i, v) == SetSectionField(i, 2, v)
SetSectionHeightAbove(i, v) == SetSectionField(i, 3, v)

SelectCatSpacing(v) ==
    /\ v # cat_spacing_in
    /\ cat_spacing_in' = v
    /\ report' = NoReport
    /\ UNCHANGED <<num_cat_entered, num_cat, cat_sections, wallMat, catMat, ceilMat, wallDim, ceilDim, labour>>

SetBlowSq(v) ==
    /\ v # blow_sq
    /\ blow_sq' = v
    /\ report' = NoReport
    /\ UNCHANGED <<vault_sq, wallMat, catMat, ceilMat, wallDim, catDim, labour>>

SetVaultSq(v) ==
    /\ v # vault_sq
    /\ vault_sq' = v
    /\ report' = NoReport
    /\ UNCHANGED <<blow_sq, wallMat, catMat, ceilMat, wallDim, catDim, labour>>

SetWallLabourRate(v) ==
    /\ v # wall_labour_rate
    /\ wall_labour_rate' = v
    /\ report' = NoReport
    /\ UNCHANGED <<ceilRates, catRates, wallMat, catMat, ceilMat, wallDim, catDim, ceilDim>>

SetCeilingHourly(v) ==
    /\ v # ceiling_hourly
    /\ ceiling_hourly' = v
    /\ report' = NoReport
    /\ UNCHANGED <<wall_labour_rate, ceiling_hours, ceiling_flat_srchg, catRates, wallMat, catMat, ceilMat, wallDim, catDim, ceilDim>>

SetCeilingHours(v) ==
    /\ v # ceiling_hours
    /\ ceiling_hours' = v
    /\ report' = NoReport
    /\ UNCHANGED <<wall_labour_rate, ceiling_hourly, ceiling_flat_srchg, catRates, wallMat, catMat, ceilMat, wallDim, catDim, ceilDim>>

SetCeilingFlatSrchg(v) ==
    /\ v # ceiling_flat_srchg
    /\ ceiling_flat_srchg' = v
    /\ report' = NoReport
    /\ UNCHANGED <<wall_labour_rate, ceiling_hourly, ceiling_hours, catRates, wallMat, catMat, ceilMat, wallDim, catDim, ceilDim>>

SetCathedralHourly(v) ==
    /\ v # cathedral_hourly
    /\ cathedral_hourly' = v
    /\ report' = NoReport
    /\ UNCHANGED <<wall_labour_rate, ceilRates, cathedral_hours, cathedral_flat, wallMat, catMat, ceilMat, wallDim, catDim, ceilDim>>

SetCathedralHours(v) ==
    /\ v # cathedral_hours
    /\ cathedral_hours' = v
    /\ report' = NoReport
    /\ UNCHANGED <<wall_labour_rate, ceilRates, cathedral_hourly, cathedral_flat, wallMat, catMat, ceilMat, wallDim, catDim, ceilDim>>

SetCathedralFlat(v) ==
    /\ v # cathedral_flat
    /\ cathedral_flat' = v
    /\ report' = NoReport
    /\ UNCHANGED <<wall_labour_rate, ceilRates, cathedral_hourly, cathedral_hours, wallMat, catMat, ceilMat, wallDim, catDim, ceilDim>>

\* A click on "Run Estimate": the script re-runs, the two catalog lookups of
\* the first tab succeed (a KeyError would end the run there), and the body
\* of the button's branch builds the report.
RunEstimate ==
    /\ InCatalog(wall_r_value, wall_width)
    /\ InCatalog(cat_r_value, cat_width)
    /\ report' = <<Estimate>>
    /\ UNCHANGED inputs

----------------------------------------------------------------------------
\* The widgets' defaults: a selectbox shows its first option, a number input
\* its min_value

MaterialsDefault ==
    /\ wall_r_value = RValues[1]
    /\ wall_width = WidthOptions(RValues[1])[1]
    /\ wall_price_per_bag = 0
    /\ cat_r_value = RValues[1]
    /\ cat_width = WidthOptions(RValues[1])[1]
    /\ cat_price_per_bag = 0
    /\ ceiling_cov_per_bag = 0
    /\ ceiling_price_per_bag = 0

WallDimDefault ==
    /\ wall_linear_feet = 0
    /\ wall_height = 0
    /\ wall_stud_spacing = SpacingOptions[1]

CatDimDefault ==
    /\ num_cat_entered = MinNumCat
    /\ num_cat = MinNumCat
    /\ cat_sections = Resize(<<>>, MinNumCat)
    /\ cat_spacing_in = SpacingOptions[1]

CeilDimDefault ==
    /\ blow_sq = 0
    /\ vault_sq = 0

LabourDefault ==
    /\ wall_labour_rate = 0
    /\ ceiling_hourly = 0
    /\ ceiling_hours = 0
    /\ ceiling_flat_srchg = 0
    /\ cathedral_hourly = 0
    /\ cathedral_hours = 0
    /\ cathedral_flat = 0

Init ==
    /\ MaterialsDefault
    /\ WallDimDefault
    /\ CatDimDefault
    /\ CeilDimDefault
    /\ LabourDefault
    /\ report = NoReport

Next ==
    \/ \E r \in RValueSet : SelectWallR(r)
    \/ \E w \in WidthSet(wall_r_value) : SelectWallWidth(w)
    \/ \E v \in PriceValues : SetWallPrice(v)
    \/ \E r \in RValueSet : SelectCatR(r)
    \/ \E w \in WidthSet(cat_r_value) : SelectCatWidth(w)
    \/ \E v \in PriceValues : SetCatPrice(v)
    \/ \E v \in CeilCovValues : SetCeilingCov(v)
    \/ \E v \in PriceValues : SetCeilingPrice(v)
    \/ \E v \in LinearFeetValues : SetWallLinearFeet(v)
    \/ \E v \in HeightValues : SetWallHeight(v)
    \/ \E v \in SpacingSet : SelectWallStudSpacing(v)
    \/ \E n \in 0..MaxSections : SetNumCat(n)
    \/ \E i \in 1..MaxSections, v \in LengthValues : SetSectionLength(i, v)
    \/ \E i \in 1..MaxSections, v \in BaseWidthValues : SetSectionBaseWidth(i, v)
    \/ \E i \in 1..MaxSections, v \in RiseValues : SetSectionHeightAbove(i, v)
    \/ \E v \in SpacingSet : SelectCatSpacing(v)
    \/ \E v \in BlowValues : SetBlowSq(v)
    \/ \E v \in VaultValues : SetVaultSq(v)
    \/ \E v \in RateValues : SetWallLabourRate(v)
    \/ \E v \in HourlyValues : SetCeilingHourly(v)
    \/ \E v \in HoursValues : SetCeilingHours(v)
    \/ \E v \in FlatValues : SetCeilingFlatSrchg(v)
    \/ \E v \in HourlyValues : SetCathedralHourly(v)
    \/ \E v \in HoursValues : SetCathedralHours(v)
    \/ \E v \in FlatValues : SetCathedralFlat(v)
    \/ RunEstimate

\* The whole form
Spec == Init /\ [][Next]_vars

\* The wall: both material selections, the wall's dimensions and price
NextWall ==
    \/ \E r \in RValueSet : SelectWallR(r)
    \/ \E w \in WidthSet(wall_r_value) : SelectWallWidth(w)
    \/ \E r \in RValueSet : SelectCatR(r)
    \/ \E w \in WidthSet(cat_r_value) : SelectCatWidth(w)
    \/ \E v \in PriceValues : SetWallPrice(v)
    \/ \E v \in LinearFeetValues : SetWallLinearFeet(v)
    \/ \E v \in HeightValues : SetWallHeight(v)
    \/ RunEstimate

SpecWall == Init /\ [][NextWall]_vars

\* The cathedral sections: the material selection, the section count and
\* the sections' dimensions, next to a wall of the default material
NextCathedral ==
    \/ \E r \in RValueSet : SelectCatR(r)
    \/ \E w \in WidthSet(cat_r_value) : SelectCatWidth(w)
    \/ \E n \in 0..MaxSections : SetNumCat(n)
    \/ \E i \in 1..MaxSections, v \in LengthValues : SetSectionLength(i, v)
    \/ \E i \in 1..MaxSections, v \in BaseWidthValues : SetSectionBaseWidth(i, v)
    \/ \E i \in 1..MaxSections, v \in RiseValues : SetSectionHeightAbove(i, v)
    \/ \E v \in LinearFeetValues : SetWallLinearFeet(v)
    \/ \E v \in HeightValues : SetWallHeight(v)
    \/ RunEstimate

SpecCathedral == Init /\ [][NextCathedral]_vars

\* The blown-in ceiling, next to a wall that has a cost
NextCeiling ==
    \/ \E v \in CeilCovValues : SetCeilingCov(v)
    \/ \E v \in PriceValues : SetCeilingPrice(v)
    \/ \E v \in BlowValues : SetBlowSq(v)
    \/ \E v \in VaultValues : SetVaultSq(v)
    \/ \E v \in LinearFeetValues : SetWallLinearFeet(v)
    \/ \E v \in HeightValues : SetWallHeight(v)
    \/ \E v \in PriceValues : SetWallPrice(v)
    \/ RunEstimate

SpecCeiling == Init /\ [][NextCeiling]_vars

\* Labour, surcharges and totals: the form is filled in with one of a few
\* jobs (states of Spec), and the prices and rates vary
ScenarioB == <<20, 24, 8>>
FlatSection == <<20, 24, 0>>

InitTotals ==
    /\ wall_r_value = "R12" /\ wall_width = 15
    /\ cat_r_value = "R14" /\ cat_width = 23
    /\ wall_price_per_bag = 0
    /\ cat_price_per_bag = 0
    /\ ceiling_cov_per_bag \in CeilCovValues
    /\ ceiling_price_per_bag = 0
    /\ wall_linear_feet \in {0, 40}
    /\ wall_height = 8
    /\ wall_stud_spacing \in SpacingSet
    /\ cat_sections \in {Resize(<<>>, MinNumCat), <<ScenarioB>>}
                        \cup {Resize(<<ScenarioB, FlatSection>>, n) : n \in MinNumCat..MaxSections}
    /\ num_cat = Len(cat_sections)
    /\ num_cat_entered = num_cat
    /\ cat_spacing_in \in SpacingSet
    /\ blow_sq = 1000
    /\ vault_sq = 500
    /\ LabourDefault
    /\ report = NoReport

NextTotals ==
    \/ \E v \in PriceValues : SetWallPrice(v)
    \/ \E v \in PriceValues : SetCatPrice(v)
    \/ \E v \in PriceValues : SetCeilingPrice(v)
    \/ \E v \in RateValues : SetWallLabourRate(v)
    \/ \E v \in HourlyValues : SetCeilingHourly(v)
    \/ \E v \in HoursValues : SetCeilingHours(v)
    \/ \E v \in FlatValues : SetCeilingFlatSrchg(v)
    \/ \E v \in HourlyValues : SetCathedralHourly(v)
    \/ \E v \in HoursValues : SetCathedralHours(v)
    \/ \E v \in FlatValues : SetCathedralFlat(v)
    \/ RunEstimate

SpecTotals == InitTotals /\ [][NextTotals]_vars

----------------------------------------------------------------------------
\* Properties

\* n bags of coverage cov (1/CovScale sq ft), each stretched by num/den,
\* cover the area (1/AreaScale sq ft)
Covers(n, area, cov, num, den) ==
    n * cov * num * AreaScale >= area * CovScale * den

\* n is the smallest bag count that covers the area
SmallestCover(n, area, cov, num, den) ==
    /\ n >= 0
    /\ Covers(n, area, cov, num, den)
    /\ n > 0 => ~Covers(n - 1, area, cov, num, den)

\* C1: in every report, total_tax is (mat_total + lab_total) * 1.05 and
\* total_buf is total_tax * 1.10, that is (mat_total + lab_total) * 1.05 * 1.10,
\* whatever the inputs (total_tax in 1/TaxDen cent, total_buf in
\* 1/(TaxDen * BufDen) cent).
C1_TotalsConsistency ==
    Shown =>
        /\ rep.total_tax = (rep.mat_total + rep.lab_total) * TaxNum
        /\ rep.total_buf = rep.total_tax * BufNum
        /\ rep.total_buf = (rep.mat_total + rep.lab_total) * TaxNum * BufNum
        /\ TaxNum * 100 = 105 * TaxDen
        /\ BufNum * 100 = 110 * BufDen

C1_Witness ==
    /\ Shown
    /\ rep.mat_total > 0
    /\ rep.lab_total > 0
    /\ rep.wall_cost > 0 /\ rep.cat_cost > 0 /\ rep.ceiling_mat_cost > 0

\* C2: in every report the blown-in net area is max(gross - exclusion, 0):
\* it is 0 when the exclusion exceeds the gross area and never negative, and
\* the ceiling bags and the ceiling material cost are never negative, with 0
\* bags when gross equals exclusion whatever the coverage.
C2_CeilingAreaFloor ==
    Shown =>
        /\ rep.ceiling_area = (IF blow_sq > vault_sq THEN blow_sq - vault_sq ELSE 0)
        /\ vault_sq > blow_sq => rep.ceiling_area = 0
        /\ rep.ceiling_area >= 0
        /\ rep.ceiling_bags >= 0
        /\ rep.ceiling_mat_cost >= 0
        /\ blow_sq = vault_sq => rep.ceiling_bags = 0

C2_Witness ==
    /\ Shown
    /\ vault_sq > blow_sq
    /\ blow_sq > 0
    /\ ceiling_cov_per_bag > 0
    /\ ceiling_price_per_bag > 0
    /\ rep.ceiling_area = 0

\* C3: in every report wall_bags is the smallest integer n with
\* n * coverage >= wall_linear_feet * wall_height, wall_pieces is
\* wall_bags * pieces_per_bag and wall_cost is wall_bags * price; no larger
\* wall area gives fewer pieces; 40 ft x 8 ft of R12 width 15 at $50 a bag is
\* 4 bags, 80 pieces, $200.
C3_WallBagsCeil ==
    Shown =>
        LET area == wall_linear_feet * wall_height * AreaScale
            spec == MATERIAL_SPECS[wall_r_value].widths[wall_width]
        IN  /\ rep.wall_area = area
            /\ SmallestCover(rep.wall_bags, area, spec.coverage_per_bag, 1, 1)
            /\ rep.wall_pieces = rep.wall_bags * spec.pieces_per_bag
            /\ rep.wall_cost = rep.wall_bags * wall_price_per_bag
            /\ \A lf \in LinearFeetValues, h \in HeightValues :
                   lf * h >= wall_linear_feet * wall_height =>
                       WallBags(WallArea(lf, h), spec.coverage_per_bag)
                           * spec.pieces_per_bag >= rep.wall_pieces
            /\ ( /\ wall_linear_feet = 40 /\ wall_height = 8
                 /\ wall_r_value = "R12" /\ wall_width = 15
                 /\ wall_price_per_bag = 5000 )
               => ( /\ rep.wall_bags = 4
                    /\ rep.wall_pieces = 80
                    /\ rep.wall_cost = 20000 )

\* the wall of scenario A: 320 sq ft, not a whole number of bags
C3_Witness ==
    /\ Shown
    /\ wall_linear_feet = 40 /\ wall_height = 8
    /\ wall_r_value = "R12" /\ wall_width = 15
    /\ wall_price_per_bag = 5000
    /\ rep.wall_bags = 4

\* C4: in every report cat_bags, the smallest count whose coverage stretched
\* by 1.10 covers the area summed over the sections, is at most the smallest
\* count that covers it without the buffer, and wall_bags is computed
\* without a buffer.
C4_BufferNeverIncreases ==
    Shown =>
        LET cov == MATERIAL_SPECS[cat_r_value].widths[cat_width].coverage_per_bag
            wcov == MATERIAL_SPECS[wall_r_value].widths[wall_width].coverage_per_bag
            total == SumSeq([i \in 1..Len(cat_sections) |-> SectionArea(cat_sections[i])])
        IN  /\ rep.total_cat_area = total
            /\ SmallestCover(rep.cat_bags, total, cov, CovBufNum, CovBufDen)
            /\ \A n \in 0..(rep.cat_bags - 1) : ~Covers(n, total, cov, 1, 1)
            /\ SmallestCover(rep.wall_bags, rep.wall_area, wcov, 1, 1)

\* two sections, an area that is a whole number of unbuffered bags
\* (2 x 320 sq ft at 32.0 sq ft a bag), a buffered count below the unbuffered
\* one, and a wall whose count a buffer would lower
C4_Witness ==
    /\ Shown
    /\ Len(cat_sections) = 2
    /\ cat_r_value = "R40" /\ cat_width = 16
    /\ rep.total_cat_area = 64000
    /\ rep.cat_bags = 19
    /\ Covers(20, rep.total_cat_area, 320, 1, 1)
    /\ ~Covers(19, rep.total_cat_area, 320, 1, 1)
    /\ wall_linear_feet = 40 /\ wall_height = 8
    /\ rep.wall_bags = 4

\* Every coverage the wall and cathedral bag computations can receive is a
\* catalog value, and all of them are positive: neither division is by zero.
CatalogCoveragePositive ==
    \A r \in RValueSet : \A w \in WidthSet(r) :
        MATERIAL_SPECS[r].widths[w].coverage_per_bag > 0

\* C6: in every report made with a blown-in coverage of zero, ceiling_bags
\* and ceiling_mat_cost are 0 whatever the net area and the price, and
\* mat_total is wall_cost + cat_cost.
C6_ZeroCeilingCoverage ==
    (Shown /\ ceiling_cov_per_bag = 0) =>
        /\ rep.ceiling_bags = 0
        /\ rep.ceiling_mat_cost = 0
        /\ rep.mat_total = rep.wall_cost + rep.cat_cost
        /\ Len(rep.lines) = 13
        /\ Len(rep.costs) = 7

C6_Witness ==
    /\ Shown
    /\ ceiling_cov_per_bag = 0
    /\ rep.ceiling_area > 0
    /\ ceiling_price_per_bag > 0
    /\ rep.wall_cost > 0

C8_ZeroSectionsAccepted ==
    (Shown /\ num_cat_entered = 0) =>
        /\ num_cat = 0
        /\ Len(cat_sections) = 0
        /\ rep.cat_surch = 0
        /\ rep.total_cat_area = 0
        /\ rep.cat_bags = 0

\* C9: in every report lab_total = wall_lab + area_lab + ceil_lab + cat_surch
\* with wall_lab = wall area * rate, area_lab = (wall area + cathedral area)
\* * rate (the wall area is charged twice), ceil_lab = hourly * hours + flat
\* and cat_surch = (hourly * hours + flat) * number of sections.
C9_LabourTotal ==
    Shown =>
        LET wall_area == wall_linear_feet * wall_height * AreaScale
        IN  /\ rep.wall_lab = wall_area * wall_labour_rate
            /\ rep.area_lab = (wall_area + rep.total_cat_area) * wall_labour_rate
            /\ rep.ceil_lab = ceiling_hourly * ceiling_hours + ceiling_flat_srchg
            /\ rep.cat_surch =
                   (cathedral_hourly * cathedral_hours + cathedral_flat) * Len(cat_sections)
            /\ num_cat = Len(cat_sections)
            /\ rep.lab_total = rep.wall_lab + rep.area_lab + rep.ceil_lab + rep.cat_surch
            /\ rep.lab_total =
                   2 * wall_area * wall_labour_rate
                   + rep.total_cat_area * wall_labour_rate
                   + ceiling_hourly * ceiling_hours + ceiling_flat_srchg
                   + (cathedral_hourly * cathedral_hours + cathedral_flat) * num_cat

C9_Witness ==
    /\ Shown
    /\ rep.wall_lab > 0
    /\ rep.total_cat_area > 0
    /\ num_cat = 2
    /\ cathedral_hourly > 0 /\ cathedral_hours > 0 /\ cathedral_flat > 0
    /\ ceiling_hourly > 0 /\ ceiling_hours > 0 /\ ceiling_flat_srchg > 0

CostLabels ==
    <<"Wall Mat", "Cat Mat", "Ceil Mat", "Wall Labour", "Area Labour",
      "Ceil Labour", "Cat Surcharge">>

\* C10: in every report the cost breakdown has the seven entries wall
\* material, cathedral material, ceiling material, wall labour, area labour,
\* ceiling labour, cathedral surcharge in this order; the first three sum to
\* mat_total, the last four to lab_total, and all seven to their sum.
C10_CostBreakdown ==
    Shown =>
        LET c == rep.costs
            value == [i \in 1..Len(c) |-> c[i][2]]
        IN  /\ Len(c) = 7
            /\ [i \in 1..Len(c) |-> c[i][1]] = CostLabels
            /\ value = <<rep.wall_cost, rep.cat_cost, rep.ceiling_mat_cost,
                         rep.wall_lab, rep.area_lab, rep.ceil_lab, rep.cat_surch>>
            /\ value[1] + value[2] + value[3] = rep.mat_total
            /\ value[4] + value[5] + value[6] + value[7] = rep.lab_total
            /\ SumSeq(value) = rep.mat_total + rep.lab_total

C10_Witness ==
    /\ Shown
    /\ \A i \in 1..7 : rep.costs[i][2] > 0
    /\ Cardinality({rep.costs[i][2] : i \in 1..7}) = 7

====
